---- MODULE Spec2Model ----
(***************************************************************************)
(* load-test-go: main validates the flags and calls runLoadTest, which     *)
(* fans totalRequests worker goroutines out under a counting semaphore     *)
(* (a buffered channel of capacity concurrency), collects one Result per   *)
(* worker through resultChan (buffered, capacity totalRequests, closed by  *)
(* a goroutine that waits on the WaitGroup) and reduces them to a Report.  *)
(*                                                                         *)
(* time.Duration is modelled in milliseconds (the code counts nanoseconds  *)
(* in an int64; the sums of a run stay far below 2^63 ns = 292 years).     *)
(***************************************************************************)
EXTENDS Integers, Sequences, FiniteSets

\* ---------------------------------------------------------------- bounds
\* Largest value of the -requests flag that is explored.
MaxRequests == 2

\* Largest reading of the logical clock that is explored.
MaxClock == 2

\* ------------------------------------------------------ program constants
\* time.Hour, the initial value of report.MinTime  (milliseconds).
Hour == 3600000
\* http.StatusOK
StatusOK == 200

\* ---------------------------------------------------------- input domains
\* Values of the -url flag: absent (the default "") or present.
UrlValues == {"", "http://target"}
\* Values of the -requests flag.
RequestValues == 0 .. MaxRequests
\* Values of the -concurrency flag (one past the largest request count, so
\* that concurrency > requests happens for every request count).
ConcurrencyValues == 0 .. (MaxRequests + 1)
\* Durations time.Since(start) may measure for a 200 response: zero, a short
\* one, and one that is longer than time.Hour.
DurationValues == {0, 1, Hour + 1}
\* Status codes other than 200 a server may answer with, and the durations
\* measured for them.
OtherStatusCodeValues == {201, 500}
OtherDurationValues == {0, Hour + 1}
\* Durations measured for a call that ends in a transport error.
ErrorDurationValues == {1}

Units == 1 .. MaxRequests

VARIABLES
    url,            \* *url          (flag)
    totalRequests,  \* *requests     (flag), runLoadTest's totalRequests
    concurrency,    \* *concurrency  (flag), runLoadTest's concurrency
    mpc,            \* position of the main goroutine (main + runLoadTest)
    exitCode,       \* os.Exit code, -1 while the process runs
    i,              \* the dispatch loop's counter
    wg,             \* the WaitGroup's counter
    semaphore,      \* number of tokens buffered in the semaphore channel
    resultChan,     \* the Results buffered in resultChan, oldest first
    closed,         \* resultChan has been closed
    panicked,       \* a goroutine panicked (send on / close of a closed channel)
    cpc,            \* position of the closing goroutine
    pc,             \* position of each worker goroutine
    result,         \* each worker's local variable result
    report,         \* runLoadTest's report accumulator
    totalTime,      \* runLoadTest's totalTime
    consumed,       \* history: the units whose Result the range loop received
    divisors,       \* history: the divisors of the divisions evaluated
    now,            \* the logical clock that time.Now() reads
    start,          \* each worker's local variable start
    stamps          \* history: the clock when each worker issued its call
                    \* and when it saw it return

vars == << url, totalRequests, concurrency, mpc, exitCode, i, wg, semaphore,
           resultChan, closed, panicked, cpc, pc, result, report, totalTime,
           consumed, divisors, now, start, stamps >>

\* The clock and what is read from it.
clock == << now, start, stamps >>

\* No clock reading yet.
NoStamps == [issued |-> 0, returned |-> 0]

\* type Result struct; err stands for Error != nil.  unit is a history tag
\* naming the goroutine that built the value.
NoResult == [unit |-> 0, StatusCode |-> 0, Duration |-> 0, err |-> FALSE]

\* make(map[int]int): a map is a function on the keys it holds.
EmptyMap == [c \in {} |-> 0]

\* The zero value of Report, but for the map, which is made with the report.
ZeroReport ==
    [TotalRequests |-> 0, StatusCodes |-> EmptyMap, SuccessfulRequests |-> 0,
     FailedRequests |-> 0, AverageTime |-> 0, MinTime |-> 0, MaxTime |-> 0]

\* report := Report{TotalRequests: totalRequests, StatusCodes: make(map[int]int),
\*                  MinTime: time.Hour}
NewReport(n) ==
    [ZeroReport EXCEPT !.TotalRequests = n, !.MinTime = Hour]

\* Fault: the buffer of resultChan is one Result too small.
ResultChanCapShort(n) == n - 1

\* make(chan Result, totalRequests): the capacity of resultChan.
ResultChanCap(n) == n

\* Fault: a capacity below one is raised to one.
SemaphoreCapAtLeastOne(c) == IF c < 1 THEN 1 ELSE c

\* Fault: the semaphore is made one slot too small.
SemaphoreCapTooSmall(c) == c - 1

\* Fault: the semaphore is made one slot too large.
SemaphoreCapOffByOne(c) == c + 1

\* make(chan struct{}, concurrency): the capacity of the semaphore.
SemaphoreCap(c) == c

Init ==
    /\ url \in UrlValues
    /\ totalRequests \in RequestValues
    /\ concurrency \in ConcurrencyValues
    /\ mpc = "validate"
    /\ exitCode = -1
    /\ i = 0
    /\ wg = 0
    /\ semaphore = 0
    /\ resultChan = << >>
    /\ closed = FALSE
    /\ panicked = FALSE
    /\ cpc = "none"
    /\ pc = [u \in Units |-> "unspawned"]
    /\ result = [u \in Units |-> NoResult]
    /\ report = ZeroReport
    /\ totalTime = 0
    /\ consumed = << >>
    /\ divisors = {}
    /\ now = 0
    /\ start = [u \in Units |-> 0]
    /\ stamps = [u \in Units |-> NoStamps]

\* The process runs until os.Exit or a panic ends it.
Running == exitCode = -1 /\ ~panicked

\* Fault: the check concurrency > requests is missing.
ValidFlagsNoUpperBound(u, r, c) ==
    /\ u # ""
    /\ ~(r <= 0)
    /\ ~(c <= 0)

\* main's three checks of the flags.
ValidFlags(u, r, c) ==
    /\ u # ""
    /\ ~(r <= 0)
    /\ ~(c <= 0 \/ c > r)

\* main, up to the call of runLoadTest: os.Exit(1) on an invalid flag.
Reject ==
    /\ Running
    /\ mpc = "validate"
    /\ ~ValidFlags(url, totalRequests, concurrency)
    /\ mpc' = "exited"
    /\ exitCode' = 1
    /\ UNCHANGED << url, totalRequests, concurrency, i, wg, semaphore,
                    resultChan, closed, panicked, cpc, pc, result, report,
                    totalTime, consumed, divisors,
                    clock >>

\* main calls runLoadTest, which makes its channels and starts the loop.
Enter ==
    /\ Running
    /\ mpc = "validate"
    /\ ValidFlags(url, totalRequests, concurrency)
    /\ mpc' = "dispatch"
    /\ i' = 0
    /\ UNCHANGED << url, totalRequests, concurrency, exitCode, wg, semaphore,
                    resultChan, closed, panicked, cpc, pc, result, report,
                    totalTime, consumed, divisors,
                    clock >>

\* Fault: wg.Add(1) is missing from the dispatch loop.
DispatchNoAdd ==
    /\ Running
    /\ mpc = "dispatch"
    /\ i < totalRequests
    /\ pc' = [pc EXCEPT ![i + 1] = "pending"]
    /\ i' = i + 1
    /\ UNCHANGED << url, totalRequests, concurrency, mpc, exitCode, wg,
                    semaphore, resultChan, closed, panicked, cpc, result,
                    report, totalTime, consumed, divisors >>
    /\ UNCHANGED clock

\* One iteration of the dispatch loop: wg.Add(1); go func() {...}().
Dispatch ==
    /\ Running
    /\ mpc = "dispatch"
    /\ i < totalRequests
    /\ wg' = wg + 1
    /\ pc' = [pc EXCEPT ![i + 1] = "pending"]
    /\ i' = i + 1
    /\ UNCHANGED << url, totalRequests, concurrency, mpc, exitCode, semaphore,
                    resultChan, closed, panicked, cpc, result, report,
                    totalTime, consumed, divisors >>
    /\ UNCHANGED clock

\* The loop ends; the closing goroutine is started and report initialised.
StartCloser ==
    /\ Running
    /\ mpc = "dispatch"
    /\ ~(i < totalRequests)
    /\ cpc' = "waiting"
    /\ report' = NewReport(totalRequests)
    /\ totalTime' = 0
    /\ mpc' = "reduce"
    /\ UNCHANGED << url, totalRequests, concurrency, exitCode, i, wg,
                    semaphore, resultChan, closed, panicked, pc, result,
                    consumed, divisors,
                    clock >>

\* Fault: the worker starts its call without taking a semaphore slot.
AcquireSkipped(u) ==
    /\ Running
    /\ pc[u] = "pending"
    /\ pc' = [pc EXCEPT ![u] = "executing"]
    /\ UNCHANGED << url, totalRequests, concurrency, mpc, exitCode, i, wg,
                    semaphore, resultChan, closed, panicked, cpc, result,
                    report, totalTime, consumed, divisors >>
    /\ stamps' = [stamps EXCEPT ![u].issued = now]
    /\ start' = [start EXCEPT ![u] = now]
    /\ UNCHANGED now

\* semaphore <- struct{}{}: blocks while the channel is full.
Acquire(u) ==
    /\ Running
    /\ pc[u] = "pending"
    /\ semaphore < SemaphoreCap(concurrency)
    /\ semaphore' = semaphore + 1
    /\ pc' = [pc EXCEPT ![u] = "admitted"]
    /\ UNCHANGED << url, totalRequests, concurrency, mpc, exitCode, i, wg,
                    resultChan, closed, panicked, cpc, result, report,
                    totalTime, consumed, divisors >>
    /\ UNCHANGED clock

\* Fault: start is not read when the call is issued, it keeps the reading it
\* had before the acquire.
IssueStaleStart(u) ==
    /\ Running
    /\ pc[u] = "admitted"
    /\ pc' = [pc EXCEPT ![u] = "executing"]
    /\ UNCHANGED << url, totalRequests, concurrency, mpc, exitCode, i, wg,
                    semaphore, resultChan, closed, panicked, cpc, result,
                    report, totalTime, consumed, divisors >>
    /\ stamps' = [stamps EXCEPT ![u].issued = now]
    /\ UNCHANGED << now, start >>

\* start := time.Now() and the call of http.Get(url).
Issue(u) ==
    /\ Running
    /\ pc[u] = "admitted"
    /\ pc' = [pc EXCEPT ![u] = "executing"]
    /\ UNCHANGED << url, totalRequests, concurrency, mpc, exitCode, i, wg,
                    semaphore, resultChan, closed, panicked, cpc, result,
                    report, totalTime, consumed, divisors >>
    /\ start' = [start EXCEPT ![u] = now]
    /\ stamps' = [stamps EXCEPT ![u].issued = now]
    /\ UNCHANGED now

\* What http.Get and time.Since can hand back: a transport error, or a
\* response with some status code; either way with a measured duration.
Responses ==
    [StatusCode : {0}, Duration : ErrorDurationValues, err : {TRUE}]
      \cup
    [StatusCode : {StatusOK}, Duration : DurationValues, err : {FALSE}]
      \cup
    [StatusCode : OtherStatusCodeValues, Duration : OtherDurationValues,
     err : {FALSE}]

\* result := Result{Duration: duration, Error: err};
\* if err == nil { result.StatusCode = resp.StatusCode }
MakeResult(u, resp) ==
    [unit |-> u,
     StatusCode |-> IF resp.err THEN 0 ELSE resp.StatusCode,
     Duration |-> resp.Duration,
     err |-> resp.err]

\* Fault: the worker counts its own failure in the shared report.
HttpReturnCounting(u) ==
    /\ Running
    /\ pc[u] = "executing"
    /\ \E resp \in Responses :
          /\ result' = [result EXCEPT ![u] = MakeResult(u, resp)]
          /\ report' = IF resp.err
                          THEN [report EXCEPT !.FailedRequests = @ + 1]
                          ELSE report
    /\ pc' = [pc EXCEPT ![u] = "completed"]
    /\ UNCHANGED << url, totalRequests, concurrency, mpc, exitCode, i, wg,
                    semaphore, resultChan, closed, panicked, cpc,
                    totalTime, consumed, divisors >>
    /\ stamps' = [stamps EXCEPT ![u].returned = now]
    /\ UNCHANGED << now, start >>

\* http.Get returns; duration is taken and result is built.
HttpReturn(u) ==
    /\ Running
    /\ pc[u] = "executing"
    /\ \E resp \in Responses : result' = [result EXCEPT ![u] = MakeResult(u, resp)]
    /\ pc' = [pc EXCEPT ![u] = "completed"]
    /\ UNCHANGED << url, totalRequests, concurrency, mpc, exitCode, i, wg,
                    semaphore, resultChan, closed, panicked, cpc, report,
                    totalTime, consumed, divisors >>
    /\ stamps' = [stamps EXCEPT ![u].returned = now]
    /\ UNCHANGED << now, start >>

\* time.Since(t) on the logical clock.
Since(t) == now - t

\* What http.Get hands back when time.Since(start) measures d: a 200
\* response (the status plays no part in the measurement).
TimedResponses(d) ==
    [StatusCode : {StatusOK}, Duration : {d}, err : {FALSE}]

\* http.Get returns; duration := time.Since(start) is read from the logical
\* clock and result is built.
HttpReturnTimed(u) ==
    /\ Running
    /\ pc[u] = "executing"
    /\ \E resp \in TimedResponses(Since(start[u])) :
          result' = [result EXCEPT ![u] = MakeResult(u, resp)]
    /\ pc' = [pc EXCEPT ![u] = "completed"]
    /\ UNCHANGED << url, totalRequests, concurrency, mpc, exitCode, i, wg,
                    semaphore, resultChan, closed, panicked, cpc, report,
                    totalTime, consumed, divisors >>
    /\ stamps' = [stamps EXCEPT ![u].returned = now]
    /\ UNCHANGED << now, start >>

\* Time passes: the logical clock advances by one.
Tick ==
    /\ Running
    /\ now < MaxClock
    /\ now' = now + 1
    /\ UNCHANGED << url, totalRequests, concurrency, mpc, exitCode, i, wg,
                    semaphore, resultChan, closed, panicked, cpc, pc, result,
                    report, totalTime, consumed, divisors, start, stamps >>

\* Fault: a worker whose call failed returns without sending its Result.
SendSkippingErrors(u) ==
    /\ Running
    /\ pc[u] = "completed"
    /\ ~closed
    /\ Len(resultChan) < ResultChanCap(totalRequests)
    /\ resultChan' = IF result[u].err THEN resultChan
                                       ELSE Append(resultChan, result[u])
    /\ pc' = [pc EXCEPT ![u] = "sent"]
    /\ UNCHANGED << url, totalRequests, concurrency, mpc, exitCode, i, wg,
                    semaphore, closed, panicked, cpc, result, report,
                    totalTime, consumed, divisors,
                    clock >>

\* resultChan <- result: blocks while the buffer is full, panics once the
\* channel is closed.
Send(u) ==
    /\ Running
    /\ pc[u] = "completed"
    /\ IF closed
         THEN /\ panicked' = TRUE
              /\ UNCHANGED << resultChan, pc >>
         ELSE /\ Len(resultChan) < ResultChanCap(totalRequests)
              /\ resultChan' = Append(resultChan, result[u])
              /\ pc' = [pc EXCEPT ![u] = "sent"]
              /\ UNCHANGED panicked
    /\ UNCHANGED << url, totalRequests, concurrency, mpc, exitCode, i, wg,
                    semaphore, closed, cpc, result, report, totalTime,
                    consumed, divisors,
                    clock >>

\* Fault: the deferred release is missing, the slot is never given back.
ReleaseSkipped(u) ==
    /\ Running
    /\ pc[u] = "sent"
    /\ pc' = [pc EXCEPT ![u] = "released"]
    /\ UNCHANGED << url, totalRequests, concurrency, mpc, exitCode, i, wg,
                    semaphore, resultChan, closed, panicked, cpc, result,
                    report, totalTime, consumed, divisors,
                    clock >>

\* The deferred func() { <-semaphore }(), the last defer, runs first.
Release(u) ==
    /\ Running
    /\ pc[u] = "sent"
    /\ semaphore > 0
    /\ semaphore' = semaphore - 1
    /\ pc' = [pc EXCEPT ![u] = "released"]
    /\ UNCHANGED << url, totalRequests, concurrency, mpc, exitCode, i, wg,
                    resultChan, closed, panicked, cpc, result, report,
                    totalTime, consumed, divisors,
                    clock >>

\* The deferred wg.Done().
Done(u) ==
    /\ Running
    /\ pc[u] = "released"
    /\ wg' = wg - 1
    /\ pc' = [pc EXCEPT ![u] = "done"]
    /\ UNCHANGED << url, totalRequests, concurrency, mpc, exitCode, i,
                    semaphore, resultChan, closed, panicked, cpc, result,
                    report, totalTime, consumed, divisors,
                    clock >>

\* Fault: the channel is closed without waiting for the workers.
WaitReturnsEarly(w) == TRUE

\* wg.Wait() returns when the counter is zero.
WaitReturns(w) == w = 0

\* The closing goroutine: wg.Wait().
Wait ==
    /\ Running
    /\ cpc = "waiting"
    /\ WaitReturns(wg)
    /\ cpc' = "woken"
    /\ UNCHANGED << url, totalRequests, concurrency, mpc, exitCode, i, wg,
                    semaphore, resultChan, closed, panicked, pc, result,
                    report, totalTime, consumed, divisors,
                    clock >>

\* The closing goroutine: close(resultChan); closing twice panics.
Close ==
    /\ Running
    /\ cpc = "woken"
    /\ IF closed
         THEN panicked' = TRUE /\ UNCHANGED closed
         ELSE closed' = TRUE /\ UNCHANGED panicked
    /\ cpc' = "finished"
    /\ UNCHANGED << url, totalRequests, concurrency, mpc, exitCode, i, wg,
                    semaphore, resultChan, pc, result, report, totalTime,
                    consumed, divisors,
                    clock >>

\* report.StatusCodes[code]++ on a Go map: a missing key counts from zero.
Increment(m, code) ==
    [c \in DOMAIN m \cup {code} |->
        IF c = code
          THEN (IF code \in DOMAIN m THEN m[code] ELSE 0) + 1
          ELSE m[c]]

\* Fault: every 2xx status counts as a success.
IsSuccess2xx(r) == r.StatusCode >= 200 /\ r.StatusCode < 300

\* result.StatusCode == http.StatusOK
IsSuccess(r) == r.StatusCode = StatusOK

\* Fault: MinTime is overwritten by every Result, the last one wins.
MinOfLast(cur, d) == d

\* if result.Duration < report.MinTime { report.MinTime = result.Duration }
MinOf(cur, d) == IF d < cur THEN d ELSE cur

\* if result.Duration > report.MaxTime { report.MaxTime = result.Duration }
MaxOf(cur, d) == IF d > cur THEN d ELSE cur

\* Fault: the continue after report.FailedRequests++ is missing, an error
\* Result falls through to the status and timing updates.
FoldNoContinue(rep, r) ==
    LET rep1 == IF r.err THEN [rep EXCEPT !.FailedRequests = @ + 1] ELSE rep
    IN  [rep1 EXCEPT
           !.StatusCodes = Increment(@, r.StatusCode),
           !.SuccessfulRequests = IF r.StatusCode = StatusOK THEN @ + 1 ELSE @,
           !.MinTime = MinOf(@, r.Duration),
           !.MaxTime = MaxOf(@, r.Duration)]

\* The body of the range loop for one received Result.
Fold(rep, r) ==
    IF r.err
      THEN [rep EXCEPT !.FailedRequests = @ + 1]
      ELSE [rep EXCEPT
              !.StatusCodes = Increment(@, r.StatusCode),
              !.SuccessfulRequests = IF IsSuccess(r) THEN @ + 1 ELSE @,
              !.MinTime = MinOf(@, r.Duration),
              !.MaxTime = MaxOf(@, r.Duration)]

\* Fault: the duration of an error Result is added to the sum as well.
AddTimeAll(t, r) == t + r.Duration

\* totalTime += result.Duration, skipped by the continue of an error Result.
AddTime(t, r) == IF r.err THEN t ELSE t + r.Duration

\* for result := range resultChan: one Result is received and folded in.
Receive ==
    /\ Running
    /\ mpc = "reduce"
    /\ resultChan # << >>
    /\ LET r == Head(resultChan)
       IN  /\ report' = Fold(report, r)
           /\ totalTime' = AddTime(totalTime, r)
           /\ consumed' = Append(consumed, r.unit)
    /\ resultChan' = Tail(resultChan)
    /\ UNCHANGED << url, totalRequests, concurrency, mpc, exitCode, i, wg,
                    semaphore, closed, panicked, cpc, pc, result, divisors,
                    clock >>

\* The range loop ends when the channel is closed and drained.
LoopExit ==
    /\ Running
    /\ mpc = "reduce"
    /\ resultChan = << >>
    /\ closed
    /\ mpc' = "finalize"
    /\ UNCHANGED << url, totalRequests, concurrency, exitCode, i, wg,
                    semaphore, resultChan, closed, panicked, cpc, pc, result,
                    report, totalTime, consumed, divisors,
                    clock >>

\* Fault: the average divides by the number of all requests.
DivisorTotal(n, rep) == n

\* totalRequests-report.FailedRequests, the divisor of the average.
Divisor(n, rep) == n - rep.FailedRequests

\* Fault: the guard of the division is missing.
HasSamplesAlways(n, rep) == TRUE

\* if totalRequests-report.FailedRequests > 0
HasSamples(n, rep) == Divisor(n, rep) > 0

\* report.AverageTime = totalTime / time.Duration(totalRequests-report.FailedRequests)
\* under its guard, then return report.  An integer division by zero is a
\* run-time panic.
Finalize ==
    /\ Running
    /\ mpc = "finalize"
    /\ IF HasSamples(totalRequests, report)
         THEN /\ divisors' = divisors \cup {Divisor(totalRequests, report)}
              /\ IF Divisor(totalRequests, report) = 0
                   THEN /\ panicked' = TRUE
                        /\ UNCHANGED << report, mpc >>
                   ELSE /\ report' = [report EXCEPT !.AverageTime =
                                 totalTime \div Divisor(totalRequests, report)]
                        /\ mpc' = "returned"
                        /\ UNCHANGED panicked
         ELSE /\ mpc' = "returned"
              /\ UNCHANGED << report, divisors, panicked >>
    /\ UNCHANGED << url, totalRequests, concurrency, exitCode, i, wg,
                    semaphore, resultChan, closed, cpc, pc, result,
                    totalTime, consumed,
                    clock >>

\* printReport(report), the end of main: the process exits with code 0.
PrintReport ==
    /\ Running
    /\ mpc = "returned"
    /\ mpc' = "exited"
    /\ exitCode' = 0
    /\ UNCHANGED << url, totalRequests, concurrency, i, wg, semaphore,
                    resultChan, closed, panicked, cpc, pc, result, report,
                    totalTime, consumed, divisors,
                    clock >>

\* One step of worker goroutine u.
Worker(u) ==
    \/ Acquire(u) \/ Issue(u) \/ HttpReturn(u)
    \/ Send(u) \/ Release(u) \/ Done(u)

\* One step of the closing goroutine.
Closer == Wait \/ Close

\* One step of the main goroutine.
Main ==
    \/ Reject \/ Enter \/ Dispatch \/ StartCloser
    \/ Receive \/ LoopExit \/ Finalize \/ PrintReport

Next ==
    \/ Reject \/ Enter \/ Dispatch \/ StartCloser
    \/ Receive \/ LoopExit \/ Finalize \/ PrintReport
    \/ Wait \/ Close
    \/ \E u \in Units : Acquire(u)
    \/ \E u \in Units : Issue(u)
    \/ \E u \in Units : HttpReturn(u)
    \/ \E u \in Units : Send(u)
    \/ \E u \in Units : Release(u)
    \/ \E u \in Units : Done(u)

Spec == Init /\ [][Next]_vars

\* Every goroutine that can take a step eventually takes one (the Go
\* scheduler is fair), and every HTTP call returns (HttpReturn is a step of
\* its worker).
FairSpec ==
    /\ Spec
    /\ WF_vars(Main)
    /\ WF_vars(Closer)
    /\ \A u \in Units : WF_vars(Worker(u))

\* runLoadTest called directly, without main's validation: any request count
\* from one and any concurrency from zero.
InitDirect ==
    /\ url = "http://target"
    /\ totalRequests \in RequestValues \ {0}
    /\ concurrency \in ConcurrencyValues
    /\ mpc = "dispatch"
    /\ exitCode = -1
    /\ i = 0
    /\ wg = 0
    /\ semaphore = 0
    /\ resultChan = << >>
    /\ closed = FALSE
    /\ panicked = FALSE
    /\ cpc = "none"
    /\ pc = [u \in Units |-> "unspawned"]
    /\ result = [u \in Units |-> NoResult]
    /\ report = ZeroReport
    /\ totalTime = 0
    /\ consumed = << >>
    /\ divisors = {}
    /\ now = 0
    /\ start = [u \in Units |-> 0]
    /\ stamps = [u \in Units |-> NoStamps]

\* The steps of runLoadTest and of the goroutines it starts.
NextDirect ==
    \/ Dispatch \/ StartCloser
    \/ Receive \/ LoopExit \/ Finalize
    \/ Wait \/ Close
    \/ \E u \in Units : Acquire(u)
    \/ \E u \in Units : Issue(u)
    \/ \E u \in Units : HttpReturn(u)
    \/ \E u \in Units : Send(u)
    \/ \E u \in Units : Release(u)
    \/ \E u \in Units : Done(u)

DirectSpec == InitDirect /\ [][NextDirect]_vars

\* The program on a logical clock: time passes between the steps, and every
\* measured duration is the difference of two readings of the clock.
NextClock ==
    \/ Tick
    \/ Reject \/ Enter \/ Dispatch \/ StartCloser
    \/ Receive \/ LoopExit \/ Finalize \/ PrintReport
    \/ Wait \/ Close
    \/ \E u \in Units : Acquire(u)
    \/ \E u \in Units : Issue(u)
    \/ \E u \in Units : HttpReturnTimed(u)
    \/ \E u \in Units : Send(u)
    \/ \E u \in Units : Release(u)
    \/ \E u \in Units : Done(u)

ClockSpec == Init /\ [][NextClock]_vars

\* ------------------------------------------------------------ properties
\* The units of this run.
RunUnits == 1 .. totalRequests

\* The units that have acquired a semaphore slot and not released it.
Holders == {u \in Units : pc[u] \in {"admitted", "executing", "completed", "sent"}}

\* The units whose HTTP call is in flight.
Executing == {u \in Units : pc[u] = "executing"}

\* runLoadTest has returned its Report to main.
Returned == mpc = "returned"

\* The units whose outcome carries an error, and those whose does not.
ErrorUnits == {u \in RunUnits : result[u].err}
NonErrorUnits == {u \in RunUnits : ~result[u].err}

\* The units whose outcome is a response with status code c.
UnitsWithCode(c) == {u \in NonErrorUnits : result[u].StatusCode = c}

\* The status codes of the non-error outcomes.
CodesSeen == {result[u].StatusCode : u \in NonErrorUnits}

RECURSIVE SumDurations(_)
\* The sum of the durations of the outcomes of the units in S.
SumDurations(S) ==
    IF S = {} THEN 0
    ELSE LET u == CHOOSE x \in S : TRUE
         IN  result[u].Duration + SumDurations(S \ {u})

RECURSIVE SumCounts(_, _)
\* The sum of m[c] over the codes c in S.
SumCounts(m, S) ==
    IF S = {} THEN 0
    ELSE LET c == CHOOSE x \in S : TRUE
         IN  m[c] + SumCounts(m, S \ {c})

\* The smallest and the largest duration among the outcomes of the units in S.
SmallestDuration(S) ==
    CHOOSE d \in {result[u].Duration : u \in S} :
        \A u \in S : d <= result[u].Duration
LargestDuration(S) ==
    CHOOSE d \in {result[u].Duration : u \in S} :
        \A u \in S : d >= result[u].Duration

\* C1: at every instant the number of units that hold a semaphore slot
\* (acquired, not yet released; the units executing their HTTP call are among
\* them) is at most concurrency.
C1_SlotsBounded ==
    /\ Cardinality(Holders) <= concurrency
    /\ Cardinality(Executing) <= concurrency

\* C1 witness: the gate is full with a call in flight while another unit
\* waits for a slot.
C1_Witness ==
    /\ Cardinality(Holders) = concurrency
    /\ Executing # {}
    /\ \E u \in Units : pc[u] = "pending"

\* C2: when runLoadTest returns, the range loop has received exactly
\* totalRequests outcomes, one of every unit, and the channel is empty.
C2_AllConsumedOnce ==
    Returned =>
        /\ Len(consumed) = totalRequests
        /\ {consumed[k] : k \in 1 .. Len(consumed)} = RunUnits
        /\ resultChan = << >>

\* C2 witness: a throttled run of several units has returned.
C2_Witness ==
    /\ Returned
    /\ totalRequests >= 2
    /\ concurrency < totalRequests
    /\ Len(consumed) = totalRequests

\* C3: under fair scheduling, with every HTTP call returning, a run that has
\* entered runLoadTest eventually returns its Report.
C3_RunReturns == (mpc = "dispatch") ~> Returned

\* C3 witness: a throttled run in which every request failed has returned.
C3_Witness ==
    /\ Returned
    /\ totalRequests >= 2
    /\ concurrency < totalRequests
    /\ report.FailedRequests = totalRequests

C6_ReadmeSample ==
    ( /\ Returned
      /\ ErrorUnits = {}
      /\ CodesSeen \subseteq {StatusOK, 500} )
    =>
        /\ report.FailedRequests = Cardinality(UnitsWithCode(500))
        /\ report.SuccessfulRequests + report.FailedRequests
             = report.TotalRequests

\* C7: whenever the returned Report has a non-error outcome,
\* MinTime <= AverageTime <= MaxTime.
C7_MinAvgMax ==
    (Returned /\ report.TotalRequests - report.FailedRequests > 0) =>
        /\ report.MinTime <= report.AverageTime
        /\ report.AverageTime <= report.MaxTime

\* C7 witness: a returned run with a zero duration and one above an hour,
\* whose average is truncated.
C7_Witness ==
    /\ Returned
    /\ \E u \in NonErrorUnits : result[u].Duration = 0
    /\ \E u \in NonErrorUnits : result[u].Duration > Hour
    /\ report.AverageTime * Cardinality(NonErrorUnits) < totalTime

\* C8: whenever a non-error outcome exists, MinTime is the smallest and
\* MaxTime the largest duration among the non-error outcomes; with a single
\* non-error outcome of duration d, MinTime = MaxTime = AverageTime = d.
C8_MinMaxExact ==
    (Returned /\ NonErrorUnits # {}) =>
        /\ report.MinTime = SmallestDuration(NonErrorUnits)
        /\ report.MaxTime = LargestDuration(NonErrorUnits)
        /\ Cardinality(NonErrorUnits) = 1 =>
              /\ report.MinTime = report.MaxTime
              /\ report.AverageTime = report.MaxTime

\* C9: AverageTime is the sum of the durations of the non-error outcomes
\* divided, truncating, by their number; the divisor the code uses is that
\* number, and no error outcome's duration is in the sum.
C9_AverageExact ==
    Returned =>
        /\ Divisor(totalRequests, report) = Cardinality(NonErrorUnits)
        /\ totalTime = SumDurations(NonErrorUnits)
        /\ NonErrorUnits # {} =>
              /\ divisors = {Cardinality(NonErrorUnits)}
              /\ report.AverageTime =
                    SumDurations(NonErrorUnits) \div Cardinality(NonErrorUnits)

\* C9 witness: a returned run with an error outcome of non-zero duration
\* next to a non-error outcome.
C9_Witness ==
    /\ Returned
    /\ \E u \in ErrorUnits : result[u].Duration > 0
    /\ NonErrorUnits # {}
    /\ report.AverageTime = totalTime

\* C10: if every request fails, no division is evaluated and the Report has
\* AverageTime = 0, MinTime = one hour, MaxTime = 0, SuccessfulRequests = 0
\* and an empty StatusCodes map; a division by zero is never evaluated.
C10_AllFailed ==
    /\ 0 \notin divisors
    /\ (mpc \in {"finalize", "returned"} /\ report.FailedRequests = totalRequests)
         => divisors = {}
    /\ (Returned /\ report.FailedRequests = totalRequests) =>
          /\ report.AverageTime = 0
          /\ report.MinTime = Hour
          /\ report.MaxTime = 0
          /\ report.SuccessfulRequests = 0
          /\ report.StatusCodes = EmptyMap
          /\ ErrorUnits = RunUnits

\* C10 witness: a throttled run of several units, all failed, has returned.
C10_Witness ==
    /\ Returned
    /\ totalRequests >= 2
    /\ concurrency < totalRequests
    /\ ErrorUnits = RunUnits
    /\ report.FailedRequests = totalRequests
    /\ divisors = {}
\* The flags are an invalid configuration.
InvalidConfiguration ==
    \/ url = ""
    \/ totalRequests <= 0
    \/ concurrency <= 0
    \/ concurrency > totalRequests

\* runLoadTest has been called.
Entered == mpc \notin {"validate"} /\ exitCode # 1

\* C11: an invalid configuration (empty url, requests <= 0, concurrency <= 0,
\* concurrency > requests) ends in exit code 1 without runLoadTest being
\* called: no worker is spawned, nothing is dispatched; and runLoadTest is
\* only entered with requests > 0 and 0 < concurrency <= requests.
C11_InvalidRejected ==
    /\ InvalidConfiguration =>
          /\ mpc \in {"validate", "exited"}
          /\ mpc = "exited" => exitCode = 1
          /\ \A u \in Units : pc[u] = "unspawned"
          /\ i = 0 /\ wg = 0 /\ semaphore = 0 /\ cpc = "none"
          /\ resultChan = << >> /\ consumed = << >>
    /\ Entered =>
          /\ totalRequests > 0
          /\ 0 < concurrency /\ concurrency <= totalRequests
          /\ url # ""
    /\ exitCode = 1 => InvalidConfiguration

\* C11 witness: a run with a url and a positive request count, but a
\* concurrency above the request count, has exited with code 1.
C11_Witness ==
    /\ exitCode = 1
    /\ url # ""
    /\ totalRequests > 0
    /\ concurrency > totalRequests
    /\ \A u \in Units : pc[u] = "unspawned"
\* The number of Results built by unit u that were sent: those still buffered
\* in resultChan and those the range loop has received.
SentBy(u) ==
    Cardinality({k \in 1 .. Len(resultChan) : resultChan[k].unit = u})
      + Cardinality({k \in 1 .. Len(consumed) : consumed[k] = u})

\* The units that have sent their Result.
Delivered == {u \in Units : pc[u] \in {"sent", "released", "done"}}

\* The units that were spawned and have not called wg.Done.
Unfinished == {u \in Units : pc[u] \notin {"unspawned", "done"}}

\* Every unit of the run has finished.
AllDone == Entered /\ i = totalRequests /\ \A u \in RunUnits : pc[u] = "done"

\* C12: every worker, whether its call succeeded or failed, sends exactly one
\* Result, then gives its semaphore slot back exactly once and decrements the
\* WaitGroup exactly once; no error aborts the run (nothing panics), and once
\* all units have finished the semaphore holds no slot.
C12_OneResultOneRelease ==
    /\ \A u \in Units : SentBy(u) = IF u \in Delivered THEN 1 ELSE 0
    /\ \A k \in 1 .. Len(resultChan) :
          resultChan[k] = result[resultChan[k].unit]
    /\ semaphore = Cardinality(Holders)
    /\ wg = Cardinality(Unfinished)
    /\ ~panicked
    /\ AllDone => semaphore = 0 /\ wg = 0

\* C12 witness: all units have finished, one with a transport error and one
\* with a response, and both Results were sent.
C12_Witness ==
    /\ AllDone
    /\ totalRequests >= 2
    /\ \E u \in RunUnits : result[u].err /\ SentBy(u) = 1
    /\ \E u \in RunUnits : ~result[u].err /\ SentBy(u) = 1
    /\ semaphore = 0
\* C13 (as claimed): the range loop updates no field of the Report while a
\* worker unit has not yet delivered its outcome.
C13_ReportAfterAllDelivered ==
    [][(mpc = "reduce" /\ report' # report) => RunUnits \subseteq Delivered]_vars

\* C13 (amended): the Report is written by the main goroutine alone, in a
\* step that is no step of a worker or of the closing goroutine: when it is
\* made, once per received outcome in the range loop, each time for an
\* outcome whose worker has delivered it, and once after the loop.
C13_ReportSingleWriter ==
    [][report' # report =>
          /\ pc' = pc /\ result' = result
          /\ semaphore' = semaphore /\ wg' = wg /\ closed' = closed
          /\ mpc \in {"dispatch", "reduce", "finalize"}
          /\ mpc = "dispatch" => i = totalRequests
          /\ mpc = "reduce" =>
                \E u \in Delivered :
                    /\ consumed' = Append(consumed, u)
                    /\ resultChan # << >> /\ Head(resultChan) = result[u]
          /\ mpc = "finalize" => resultChan = << >> /\ closed]_vars

\* C13 witness: the range loop has folded an outcome into the Report while
\* another unit has not delivered its own.
C13_Witness ==
    /\ mpc = "reduce"
    /\ consumed # << >>
    /\ report # NewReport(totalRequests)
    /\ \E u \in RunUnits : u \notin Delivered
\* The position of a worker in its life cycle: Pending = 1, Admitted = 2,
\* Executing = 3, Completed = 4 and the steps of its exit after that.
Stage(p) ==
    CASE p = "unspawned" -> 0
      [] p = "pending"   -> 1
      [] p = "admitted"  -> 2
      [] p = "executing" -> 3
      [] p = "completed" -> 4
      [] p = "sent"      -> 5
      [] p = "released"  -> 6
      [] p = "done"      -> 7

\* C15: every unit moves Pending -> Admitted -> Executing -> Completed, one
\* stage at a time and never backwards; a unit starts its HTTP call only
\* from Admitted, holding a slot, and with the admitted-and-executing
\* population within concurrency.
C15_LifeCycle ==
    [][\A u \in Units :
          pc'[u] # pc[u] =>
              /\ Stage(pc'[u]) = Stage(pc[u]) + 1
              /\ pc'[u] = "admitted" =>
                    /\ semaphore' = semaphore + 1
                    /\ semaphore' <= concurrency
              /\ pc'[u] = "executing" =>
                    /\ pc[u] = "admitted"
                    /\ Cardinality(Holders') <= concurrency
                    /\ Cardinality(Holders') = semaphore']_vars

\* C15 witness: one unit has gone through all its stages while another is
\* still Pending.
C15_Witness ==
    /\ \E u \in RunUnits : pc[u] = "done"
    /\ \E u \in RunUnits : pc[u] = "pending"
\* C16: resultChan is closed once, by the closing goroutine, and only after
\* every unit has sent its outcome and finished (the WaitGroup is at zero);
\* no worker sends on the closed channel and the channel is not closed twice
\* (nothing panics); the outcomes buffered when it is closed are still
\* received: the range loop ends only on the closed and drained channel,
\* with all totalRequests outcomes received.
C16_ClosedAfterAllSent ==
    /\ closed <=> cpc = "finished"
    /\ closed =>
          /\ wg = 0
          /\ \A u \in RunUnits : pc[u] = "done" /\ SentBy(u) = 1
          /\ Len(resultChan) + Len(consumed) = totalRequests
    /\ ~panicked
    /\ mpc \in {"finalize", "returned"} =>
          /\ closed
          /\ resultChan = << >>
          /\ Len(consumed) = totalRequests

\* C16 witness: the channel is closed while every outcome of a run of
\* several units is still buffered in it.
C16_Witness ==
    /\ closed
    /\ mpc = "reduce"
    /\ totalRequests >= 2
    /\ Len(resultChan) = totalRequests
\* C17: with concurrency = totalRequests nothing is throttled: whenever a
\* unit is Pending the semaphore is not full, so its acquire is enabled at
\* once.  (That all units can then be executing together is the witness.)
C17_NoThrottling ==
    (Entered /\ concurrency = totalRequests) =>
        \A u \in Units :
            pc[u] = "pending" =>
                /\ semaphore < concurrency
                /\ ENABLED Acquire(u)

\* C17 witness: all units of a run of several units with concurrency =
\* totalRequests execute their HTTP call at the same time.
C17_Witness ==
    /\ Entered
    /\ concurrency = totalRequests
    /\ totalRequests >= 2
    /\ Executing = RunUnits
\* The Report as a function of the multiset of the units' outcomes alone:
\* counts, the smallest of one hour and the non-error durations, the largest
\* of zero and the non-error durations, and the truncated mean.
ReportOfOutcomes ==
    LET durations == {result[u].Duration : u \in NonErrorUnits}
        n == Cardinality(NonErrorUnits)
    IN  [TotalRequests |-> totalRequests,
         StatusCodes |-> [c \in CodesSeen |-> Cardinality(UnitsWithCode(c))],
         SuccessfulRequests |-> Cardinality(UnitsWithCode(StatusOK)),
         FailedRequests |-> Cardinality(ErrorUnits),
         AverageTime |-> IF n = 0 THEN 0 ELSE SumDurations(NonErrorUnits) \div n,
         MinTime |-> CHOOSE d \in durations \cup {Hour} :
                        \A e \in durations \cup {Hour} : d <= e,
         MaxTime |-> CHOOSE d \in durations \cup {0} :
                        \A e \in durations \cup {0} : d >= e]

\* C18: the returned Report is determined by the multiset of the units'
\* outcomes: whatever the order of admission, completion and reception, it
\* equals the one value computed from the outcomes without any order, so two
\* runs with the same outcomes return equal Reports.
C18_OrderIndependent == Returned => report = ReportOfOutcomes

\* C18 witness: a returned run whose two units had different outcomes and
\* whose outcomes were received in the reverse of the dispatch order.
C18_Witness ==
    /\ Returned
    /\ totalRequests >= 2
    /\ consumed[1] > consumed[2]
    /\ result[1].StatusCode # result[2].StatusCode
    /\ result[1].Duration # result[2].Duration
\* C20: resultChan never holds more than its capacity totalRequests, and a
\* worker that has its Result ready always finds room in the open channel,
\* so its send does not block however slowly the range loop drains; a unit
\* holding a slot is thus never blocked on the collector, its release is
\* enabled after the send, and under fair scheduling the slot of a unit
\* whose call has returned is eventually released.
C20_SendNeverBlocks ==
    /\ [](/\ Len(resultChan) <= totalRequests
          /\ \A u \in Units :
                /\ pc[u] = "completed" =>
                      /\ ~closed
                      /\ Len(resultChan) < ResultChanCap(totalRequests)
                      /\ ENABLED Send(u)
                /\ pc[u] = "sent" => ENABLED Release(u))
    /\ \A u \in Units :
          (pc[u] = "completed") ~> (pc[u] \in {"released", "done"})

\* C20 witness: the range loop has received nothing, the other outcomes of
\* the run are buffered, and one more unit has its Result ready to send.
C20_Witness ==
    /\ totalRequests >= 2
    /\ mpc = "reduce"
    /\ consumed = << >>
    /\ Len(resultChan) = totalRequests - 1
    /\ \E u \in RunUnits : pc[u] = "completed"
\* C19: entered with concurrency = 0 and totalRequests >= 1, runLoadTest
\* never admits a unit, never gets an outcome, never closes resultChan and
\* never returns: once the units are dispatched no goroutine can take a step.
C19_ZeroConcurrencyDeadlock ==
    concurrency = 0 =>
        /\ \A u \in Units : pc[u] \in {"unspawned", "pending"}
        /\ semaphore = 0
        /\ resultChan = << >> /\ consumed = << >>
        /\ ~closed /\ cpc \in {"none", "waiting"}
        /\ mpc \in {"dispatch", "reduce"}
        /\ mpc = "reduce" =>
              /\ wg = totalRequests
              /\ ~ENABLED NextDirect

\* C19 witness: with concurrency = 0 all units of a run of several units are
\* dispatched and Pending, the closing goroutine waits and the range loop
\* waits for a first outcome.
C19_Witness ==
    /\ concurrency = 0
    /\ totalRequests >= 2
    /\ mpc = "reduce"
    /\ cpc = "waiting"
    /\ \A u \in RunUnits : pc[u] = "pending"
\* The units whose HTTP call has returned.
Measured == {u \in Units : pc[u] \in {"completed", "sent", "released", "done"}}

\* C14: a unit's timer is started only once the unit holds its slot, in the
\* step that issues the call, and is stopped when the call returns: on the
\* logical clock the recorded Duration is (time the call returned) - (time
\* the call was issued), whether or not time passed while the unit was
\* Pending.
C14_DurationExcludesWaiting ==
    /\ \A u \in Units :
          (pc[u] = "executing" \/ u \in Measured) =>
              start[u] = stamps[u].issued
    /\ \A u \in Measured :
          /\ result[u].Duration = stamps[u].returned - stamps[u].issued
          /\ result[u].Duration >= 0

\* C14 witness: with one slot, the unit dispatched first was overtaken by
\* the second, whose call took time; the first unit, Pending all that while,
\* issued its call afterwards and saw it return at once: its recorded
\* Duration is zero.
C14_Witness ==
    /\ concurrency = 1
    /\ {1, 2} \subseteq Measured
    /\ result[2].Duration > 0
    /\ stamps[2].returned <= stamps[1].issued
    /\ result[1].Duration = 0
====
